---- MODULE Spec2Model ----
(***************************************************************************)
(* Model of the ign-transport log storage engine, src/log/src/Log.cc:      *)
(* the Log facade (Open, InsertMessage, destructor), the LogPrivate        *)
(* helpers (BeginTransaction, EndTransaction, TimeForNewTransaction,       *)
(* TopicId, InsertMessage) and the part of the SQLite store they drive.    *)
(*                                                                         *)
(* One process drives one Log object at a time over one database file.     *)
(* The store keeps the durable contents of the file (file) apart from the  *)
(* view of the open connection (conn), so that what a commit makes durable *)
(* and what a close or an abnormal end discards can be told apart.         *)
(***************************************************************************)
EXTENDS Integers, Sequences, FiniteSets, TLC

\* ---------------------------------------------------------------- bounds
\* InsertMessage calls made in one run, over all Log objects
MaxCalls == 2
\* Log objects constructed one after the other over the same file
MaxInstances == 2
\* last instant of the steady clock, in milliseconds
MaxTime == 501

\* bits of the C++ int that sqlite3_bind_int takes, scaled down from 32 so
\* that row ids past its range are within reach; row ids themselves are
\* sqlite3_int64 and never leave their range here
IntBits == 4

\* Log::Log(): transactionPeriod = std::chrono::milliseconds(500)
transactionPeriod == 500

\* milliseconds that pass between two facade calls
TickSteps == {500}
\* milliseconds that pass inside one InsertMessage call, between the clock
\* read of BeginTransaction and the one of TimeForNewTransaction
CallElapsed == {0, 501}

Names == {"t", "u"}
TypeNames == {"A", "B"}
Pairs == Names \X TypeNames
Payloads == {"hello"}
\* common::Time values, <<sec, nsec>>
Times == {<<5, 0>>}

\* the file the process logs to, and a path in a directory that does not exist
Paths == {"x.db", "nodir/y.db"}
LogFile == "x.db"

\* the values of _mode: the three enumerators and one value that is none
Modes == {"READ", "READ_WRITE", "READ_WRITE_CREATE", "OTHER"}

\* where the statements of LogPrivate::TopicId can fail
TopicFaults == {"none", "compile_type", "compile_topic", "bind_topic",
                "step_type", "step_topic"}
\* where the statement of LogPrivate::InsertMessage can fail
InsertFaults == {"none", "compile_message", "bind_message", "step_message"}
\* the first command of one Log::InsertMessage call that the store fails: a
\* call ends at its first failure, and a failed commit ends no call
CallFaults == {"begin", "end"} \cup TopicFaults \cup InsertFaults
\* how applying the schema in Log::Open can fail
SchemaFaults == {"none", "missing", "unreadable", "exec"}
\* what reading dataPtr->inTransaction through a null dataPtr can do: stop
\* the process, or yield a flag that is clear, or one that is set
NullDataPtrs == {"crash", "clear", "set"}
\* what dereferencing the null db pointer can do: stop the process, or read
\* a handle the store rejects
NullDerefs == {"crash", "misuse"}

VARIABLES
  pc,               \* "alive", "destroyed" or "crashed": the Log object
  db,               \* dataPtr->db: "null", "invalid" (no handle) or "open"
  inTransaction,    \* dataPtr->inTransaction
  topics,           \* dataPtr->topics: (name, type) -> topic id
  lastTransaction,  \* dataPtr->lastTransaction
  now,              \* std::chrono::steady_clock
  file,             \* durable contents of the database file
  conn,             \* the open connection: its mode, transaction and view
  calls,            \* InsertMessage calls made so far
  accepted,         \* inputs of the calls that returned success, in order
  base,             \* rows of each table when this object connected
  resolved,         \* successful TopicId results of this object
  halfResolved,     \* pairs whose resolution failed after the type row
  pending,          \* instants at which the uncommitted rows were inserted
  lastCall,         \* what the latest facade call did
  instances,        \* Log objects constructed so far
  movedFrom         \* Log objects that were moved from and still exist

vars == <<pc, db, inTransaction, topics, lastTransaction, now, file, conn,
          calls, accepted, base, resolved, halfResolved, pending,
          lastCall, instances, movedFrom>>


\* ------------------------------------------------------------- the store
\* The file with its three tables. A row's id is its position: the store
\* assigns max(rowid) + 1 and no row is ever deleted.
NoFile == [exists |-> FALSE, tables |-> FALSE, types |-> <<>>,
           topicRows |-> <<>>, messages |-> <<>>]

NoConn == [readonly |-> FALSE, txn |-> FALSE, lastInsertRowid |-> 0,
           tables |-> FALSE, types |-> <<>>, topicRows |-> <<>>,
           messages |-> <<>>]

\* the file once the view c of a connection is made durable
FileOf(c) == [exists |-> TRUE, tables |-> c.tables, types |-> c.types,
              topicRows |-> c.topicRows, messages |-> c.messages]

\* the view of a connection just opened on file f
ConnOf(f, readonly) ==
  [readonly |-> readonly, txn |-> FALSE, lastInsertRowid |-> 0,
   tables |-> f.tables, types |-> f.types, topicRows |-> f.topicRows,
   messages |-> f.messages]

\* body applied to the value of x, which is computed once
Bind(x, body(_)) == CHOOSE y \in {body(v) : v \in {x}} : TRUE

\* the handle of the connection wrapper: valid only after a successful open
Handle(w) == IF w.db = "open" THEN "valid" ELSE "NULL"

\* schema: message_types.name is unique, so INSERT OR IGNORE skips a name
\* that is already there
MessageTypesNameUnique == TRUE

\* id of the message_types row named type, 0 when there is none
\* (SELECT id FROM message_types WHERE name = ?001 LIMIT 1)
TypeIdOf(c, type) ==
  IF \E i \in 1..Len(c.types) : c.types[i] = type
  THEN CHOOSE i \in 1..Len(c.types) :
         c.types[i] = type /\ \A j \in 1..(i - 1) : c.types[j] # type
  ELSE 0

\* the command joins the commands of the running call
Issued(w, cmd, ok) ==
  Append(w.cmds, [cmd |-> cmd, ok |-> ok, handle |-> Handle(w),
                  txn |-> w.conn.txn, active |-> w.inTransaction])

\* a statement that left the view c: outside a transaction the store
\* commits it at once
Written(w, c) ==
  [w EXCEPT !.conn = c,
            !.file = IF c.txn THEN @ ELSE FileOf(c)]

\* this->db->Handle() with db a null pointer: the process stops, or the
\* call goes on with a handle the store rejects
Deref(w) ==
  IF w.db = "null" /\ w.nullDeref = "crash"
  THEN [w EXCEPT !.crashed = TRUE]
  ELSE w

\* sqlite3_exec(handle, "BEGIN;"): fails on no handle, inside a transaction
\* and when the store reports an error
ExecBegin(w, ok) ==
  Bind(Deref(w), LAMBDA d :
    Bind(~d.crashed /\ Handle(d) = "valid" /\ ok /\ ~d.conn.txn, LAMBDA done :
      IF d.crashed THEN [d EXCEPT !.ret = FALSE]
      ELSE [d EXCEPT !.cmds = Issued(d, "BEGIN", done),
                     !.conn.txn = IF done THEN TRUE ELSE @,
                     !.ret = done]))

\* sqlite3_exec(handle, "END;"): commits the view to the file; a failed
\* commit leaves the transaction open
ExecEnd(w, ok) ==
  Bind(Deref(w), LAMBDA d :
    Bind(~d.crashed /\ Handle(d) = "valid" /\ ok /\ d.conn.txn, LAMBDA done :
      IF d.crashed THEN [d EXCEPT !.ret = FALSE]
      ELSE [d EXCEPT !.cmds = Issued(d, "END", done),
                     !.conn.txn = IF done THEN FALSE ELSE @,
                     !.file = IF done THEN FileOf(d.conn) ELSE @,
                     !.ret = done]))

\* releasing the connection: an open transaction is rolled back
Close(w) ==
  [w EXCEPT !.conn = NoConn, !.db = "null"]

\* -------------------------------------------------- LogPrivate, Log.cc
\* EndTransaction that clears the flag whatever the store answered
EndTransaction_AlwaysIdle(w, ok) ==
  Bind(ExecEnd(w, ok), LAMBDA r :
    [r EXCEPT !.inTransaction = FALSE, !.ret = r.ret])

EndTransaction(w, ok) ==
  Bind(ExecEnd(w, ok), LAMBDA r :
    IF ~r.ret
    THEN [r EXCEPT !.ret = FALSE]
    ELSE [r EXCEPT !.inTransaction = FALSE, !.ret = TRUE])

\* BeginTransaction that sets the flag before it looks at the store's answer
BeginTransaction_FlagFirst(w, ok) ==
  Bind(ExecBegin(w, ok), LAMBDA r :
    IF ~r.ret
    THEN [r EXCEPT !.inTransaction = ~r.crashed, !.ret = FALSE]
    ELSE [r EXCEPT !.inTransaction = TRUE,
                   !.lastTransaction = r.clock,
                   !.ret = TRUE])

BeginTransaction(w, ok) ==
  Bind(ExecBegin(w, ok), LAMBDA r :
    IF ~r.ret
    THEN [r EXCEPT !.ret = FALSE]
    ELSE [r EXCEPT !.inTransaction = TRUE,
                   !.lastTransaction = r.clock,
                   !.ret = TRUE])

\* TimeForNewTransaction with the comparison turned round
TimeForNewTransaction_Reversed(w) ==
  w.clock - transactionPeriod < w.lastTransaction

TimeForNewTransaction(w) ==
  w.clock - transactionPeriod > w.lastTransaction

\* sqlite3_prepare_v2 behind raii_sqlite3::Statement: no statement without a
\* handle, without the tables, or when the store reports an error
Prepared(w, ok) == Handle(w) = "valid" /\ w.conn.tables /\ ok

\* sqlite3_step of "INSERT OR IGNORE INTO message_types (name) VALUES (?001)"
StepInsertType(w, type, ok) ==
  Bind(Handle(w) = "valid" /\ ok /\ ~w.conn.readonly, LAMBDA done :
    Bind([w EXCEPT !.cmds = Issued(w, "TYPE", done), !.ret = done], LAMBDA i :
      IF ~done THEN i
      ELSE IF MessageTypesNameUnique /\ TypeIdOf(w.conn, type) # 0 THEN i
      ELSE Written(i, [w.conn EXCEPT
                         !.types = Append(@, type),
                         !.lastInsertRowid = Len(w.conn.types) + 1])))

\* sqlite3_step of "INSERT INTO topics (name, message_type_id) SELECT ?002, id
\* FROM message_types WHERE name = ?001 LIMIT 1": one row when the type row is
\* there, none otherwise, and SQLITE_DONE either way
StepInsertTopic(w, name, type, ok) ==
  Bind(Handle(w) = "valid" /\ ok /\ ~w.conn.readonly, LAMBDA done :
    Bind([w EXCEPT !.cmds = Issued(w, "TOPIC", done), !.ret = done], LAMBDA i :
      Bind(TypeIdOf(w.conn, type), LAMBDA tid :
        IF ~done \/ tid = 0 THEN i
        ELSE Written(i, [w.conn EXCEPT
                           !.topicRows =
                              Append(@, [name |-> name,
                                         message_type_id |-> tid]),
                           !.lastInsertRowid = Len(w.conn.topicRows) + 1]))))

\* sqlite3_step of "INSERT INTO messages (time_recv_sec, time_recv_nano,
\* message, topic_id) VALUES (?001, ?002, ?003, ?004)"
StepInsertMessage(w, time, topic, data, ok) ==
  Bind(Handle(w) = "valid" /\ ok /\ ~w.conn.readonly, LAMBDA done :
    Bind([w EXCEPT !.cmds = Issued(w, "MESSAGE", done), !.ret = done],
         LAMBDA i :
      IF ~done THEN i
      ELSE Written(i, [w.conn EXCEPT
                         !.messages =
                            Append(@, [time_recv_sec |-> time[1],
                                       time_recv_nano |-> time[2],
                                       message |-> data,
                                       topic_id |-> topic]),
                         !.lastInsertRowid = Len(w.conn.messages) + 1])))

\* the cache with key bound to id (this->topics[key] = id)
CachePut(cache, key, id) ==
  [k \in DOMAIN cache \cup {key} |-> IF k = key THEN id ELSE cache[k]]

\* TopicId that takes the id of the type row for the id of the topic row
TopicId_TypeRowId(w, name, type, fault) ==
  IF <<name, type>> \in DOMAIN w.topics
  THEN [w EXCEPT !.ret = w.topics[<<name, type>>]]
  ELSE IF ~Prepared(w, fault # "compile_type") THEN [w EXCEPT !.ret = -1]
  ELSE IF ~Prepared(w, fault # "compile_topic") THEN [w EXCEPT !.ret = -1]
  ELSE IF fault = "bind_topic" THEN [w EXCEPT !.ret = -1]
  ELSE Bind(StepInsertType(w, type, fault # "step_type"), LAMBDA t :
    IF ~t.ret THEN [t EXCEPT !.ret = -1]
    ELSE Bind(StepInsertTopic(t, name, type, fault # "step_topic"), LAMBDA p :
      IF ~p.ret THEN [p EXCEPT !.ret = -1]
      ELSE [p EXCEPT !.topics = CachePut(@, <<name, type>>,
                                         TypeIdOf(p.conn, type)),
                     !.ret = TypeIdOf(p.conn, type)]))

\* TopicId that stores its result in the cache when the topic step failed
TopicId_CacheOnFailure(w, name, type, fault) ==
  IF <<name, type>> \in DOMAIN w.topics
  THEN [w EXCEPT !.ret = w.topics[<<name, type>>]]
  ELSE IF ~Prepared(w, fault # "compile_type") THEN [w EXCEPT !.ret = -1]
  ELSE IF ~Prepared(w, fault # "compile_topic") THEN [w EXCEPT !.ret = -1]
  ELSE IF fault = "bind_topic" THEN [w EXCEPT !.ret = -1]
  ELSE Bind(StepInsertType(w, type, fault # "step_type"), LAMBDA t :
    IF ~t.ret THEN [t EXCEPT !.ret = -1]
    ELSE Bind(StepInsertTopic(t, name, type, fault # "step_topic"), LAMBDA p :
      IF ~p.ret
      THEN [p EXCEPT !.topics = CachePut(@, <<name, type>>, -1), !.ret = -1]
      ELSE [p EXCEPT !.topics = CachePut(@, <<name, type>>,
                                         p.conn.lastInsertRowid),
                     !.ret = p.conn.lastInsertRowid]))

\* TopicId that never stores the new id in the cache
TopicId_NoCache(w, name, type, fault) ==
  IF <<name, type>> \in DOMAIN w.topics
  THEN [w EXCEPT !.ret = w.topics[<<name, type>>]]
  ELSE IF ~Prepared(w, fault # "compile_type") THEN [w EXCEPT !.ret = -1]
  ELSE IF ~Prepared(w, fault # "compile_topic") THEN [w EXCEPT !.ret = -1]
  ELSE IF fault = "bind_topic" THEN [w EXCEPT !.ret = -1]
  ELSE Bind(StepInsertType(w, type, fault # "step_type"), LAMBDA t :
    IF ~t.ret THEN [t EXCEPT !.ret = -1]
    ELSE Bind(StepInsertTopic(t, name, type, fault # "step_topic"), LAMBDA p :
      IF ~p.ret THEN [p EXCEPT !.ret = -1]
      ELSE [p EXCEPT !.ret = p.conn.lastInsertRowid]))

\* TopicId whose cache lookup compares the topic name alone
TopicId_KeyByName(w, name, type, fault) ==
  IF \E k \in DOMAIN w.topics : k[1] = name
  THEN [w EXCEPT !.ret = w.topics[CHOOSE k \in DOMAIN w.topics :
                                     k[1] = name]]
  ELSE IF ~Prepared(w, fault # "compile_type") THEN [w EXCEPT !.ret = -1]
  ELSE IF ~Prepared(w, fault # "compile_topic") THEN [w EXCEPT !.ret = -1]
  ELSE IF fault = "bind_topic" THEN [w EXCEPT !.ret = -1]
  ELSE Bind(StepInsertType(w, type, fault # "step_type"), LAMBDA t :
    IF ~t.ret THEN [t EXCEPT !.ret = -1]
    ELSE Bind(StepInsertTopic(t, name, type, fault # "step_topic"), LAMBDA p :
      IF ~p.ret THEN [p EXCEPT !.ret = -1]
      ELSE [p EXCEPT !.topics = CachePut(@, <<name, type>>,
                                         p.conn.lastInsertRowid),
                     !.ret = p.conn.lastInsertRowid]))

TopicId(w, name, type, fault) ==
  IF <<name, type>> \in DOMAIN w.topics
  THEN [w EXCEPT !.ret = w.topics[<<name, type>>]]
  ELSE IF ~Prepared(w, fault # "compile_type") THEN [w EXCEPT !.ret = -1]
  ELSE IF ~Prepared(w, fault # "compile_topic") THEN [w EXCEPT !.ret = -1]
  ELSE IF fault = "bind_topic" THEN [w EXCEPT !.ret = -1]
  ELSE Bind(StepInsertType(w, type, fault # "step_type"), LAMBDA t :
    IF ~t.ret THEN [t EXCEPT !.ret = -1]
    ELSE Bind(StepInsertTopic(t, name, type, fault # "step_topic"), LAMBDA p :
      IF ~p.ret THEN [p EXCEPT !.ret = -1]
      ELSE [p EXCEPT !.topics = CachePut(@, <<name, type>>,
                                         p.conn.lastInsertRowid),
                     !.ret = p.conn.lastInsertRowid]))

\* the largest int
IntMax == 2 ^ (IntBits - 1) - 1

\* the int that sqlite3_bind_int(statement, index, v) receives for a 64-bit
\* v: the conversion keeps the low IntBits bits, two's complement
BindInt(v) == ((v + 2 ^ (IntBits - 1)) % 2 ^ IntBits) - 2 ^ (IntBits - 1)

\* LogPrivate::InsertMessage that does not look at the result of the step
LogPrivate_InsertMessage_NoStepCheck(w, time, topic, data, fault) ==
  IF ~Prepared(w, fault # "compile_message") THEN [w EXCEPT !.ret = FALSE]
  ELSE IF fault = "bind_message" THEN [w EXCEPT !.ret = FALSE]
  ELSE Bind(StepInsertMessage(w, <<BindInt(time[1]), BindInt(time[2])>>,
                              BindInt(topic), data,
                              fault # "step_message"),
            LAMBDA s : [s EXCEPT !.ret = TRUE])

LogPrivate_InsertMessage(w, time, topic, data, fault) ==
  IF ~Prepared(w, fault # "compile_message") THEN [w EXCEPT !.ret = FALSE]
  ELSE IF fault = "bind_message" THEN [w EXCEPT !.ret = FALSE]
  ELSE Bind(StepInsertMessage(w, <<BindInt(time[1]), BindInt(time[2])>>,
                              BindInt(topic), data,
                              fault # "step_message"),
            LAMBDA s :
    IF ~s.ret THEN [s EXCEPT !.ret = FALSE]
    ELSE [s EXCEPT !.ret = TRUE])

\* ------------------------------------------------------- Log, Log.cc
\* new raii_sqlite3::Database(_file, modeSQL): a handle when the file can be
\* opened in the mode, none otherwise; only READ_WRITE_CREATE makes a file
DatabaseOpen(w, path, mode, ok) ==
  IF ok /\ path = LogFile /\ (w.file.exists \/ mode = "READ_WRITE_CREATE")
  THEN [w EXCEPT !.db = "open",
                 !.conn = ConnOf(w.file, mode = "READ"),
                 !.file.exists = TRUE]
  ELSE [w EXCEPT !.db = "invalid", !.conn = NoConn]

\* sqlite3_exec(handle, schema): creates the three tables. It cannot create
\* them through a read-only connection; on a file that has them the
\* outcome is the store's and the rows stay as they are. The schema text is
\* copied from a buffer that holds no terminator, so what follows the text
\* is whatever the heap holds: the store may reject it (ok = FALSE).
ExecSchema(w, ok) ==
  Bind(Handle(w) = "valid" /\ ok /\ (w.conn.tables \/ ~w.conn.readonly),
       LAMBDA done :
    Bind([w EXCEPT !.cmds = Issued(w, "SCHEMA", done), !.ret = done],
         LAMBDA i :
      IF done THEN Written(i, [w.conn EXCEPT !.tables = TRUE]) ELSE i))

\* Log::Open without the test for a store that is already open
Log_Open_NoGuard(w, path, mode, connOk, sfault) ==
  IF mode \notin {"READ", "READ_WRITE", "READ_WRITE_CREATE"}
  THEN [w EXCEPT !.ret = FALSE]
  ELSE Bind(DatabaseOpen(w, path, mode, connOk), LAMBDA o :
    IF Handle(o) # "valid" THEN [o EXCEPT !.ret = TRUE]
    ELSE IF sfault = "missing" THEN [o EXCEPT !.ret = FALSE]
    ELSE IF sfault = "unreadable" THEN [o EXCEPT !.ret = FALSE]
    ELSE Bind(ExecSchema(o, sfault # "exec"), LAMBDA x :
      IF ~x.ret THEN [x EXCEPT !.ret = FALSE]
      ELSE [x EXCEPT !.ret = TRUE]))

\* a Log::Open that applies the schema only to a file without tables
Log_Open_SchemaOnlyIfNew(w, path, mode, connOk, sfault) ==
  IF w.db # "null" THEN [w EXCEPT !.ret = FALSE]
  ELSE IF mode \notin {"READ", "READ_WRITE", "READ_WRITE_CREATE"}
  THEN [w EXCEPT !.ret = FALSE]
  ELSE Bind(DatabaseOpen(w, path, mode, connOk), LAMBDA o :
    IF Handle(o) # "valid" THEN [o EXCEPT !.ret = TRUE]
    ELSE IF o.conn.tables THEN [o EXCEPT !.ret = TRUE]
    ELSE IF sfault = "missing" THEN [o EXCEPT !.ret = FALSE]
    ELSE IF sfault = "unreadable" THEN [o EXCEPT !.ret = FALSE]
    ELSE Bind(ExecSchema(o, sfault # "exec"), LAMBDA x :
      IF ~x.ret THEN [x EXCEPT !.ret = FALSE]
      ELSE [x EXCEPT !.ret = TRUE]))

Log_Open(w, path, mode, connOk, sfault) ==
  IF w.db # "null" THEN [w EXCEPT !.ret = FALSE]
  ELSE IF mode \notin {"READ", "READ_WRITE", "READ_WRITE_CREATE"}
  THEN [w EXCEPT !.ret = FALSE]
  ELSE Bind(DatabaseOpen(w, path, mode, connOk), LAMBDA o :
    IF Handle(o) # "valid" THEN [o EXCEPT !.ret = TRUE]
    ELSE IF sfault = "missing" THEN [o EXCEPT !.ret = FALSE]
    ELSE IF sfault = "unreadable" THEN [o EXCEPT !.ret = FALSE]
    ELSE Bind(ExecSchema(o, sfault # "exec"), LAMBDA x :
      IF ~x.ret THEN [x EXCEPT !.ret = FALSE]
      ELSE [x EXCEPT !.ret = TRUE]))

\* Log::InsertMessage that begins a transaction whatever the flag says
Log_InsertMessage_AlwaysBegin(w, time, name, type, data, f) ==
  Bind(BeginTransaction(w, f.begin), LAMBDA b :
    IF ~b.ret
    THEN [b EXCEPT !.ret = FALSE, !.stage = "begin"]
    ELSE Bind(TopicId(b, name, type, f.topic), LAMBDA t :
      IF t.ret < 0
      THEN [t EXCEPT !.ret = FALSE, !.stage = "topic", !.topicId = t.ret]
      ELSE Bind(LogPrivate_InsertMessage(t, time, t.ret, data, f.insert),
                LAMBDA m :
        IF ~m.ret
        THEN [m EXCEPT !.ret = FALSE, !.stage = "insert", !.topicId = t.ret]
        ELSE Bind([m EXCEPT !.clock = @ + f.elapsed], LAMBDA c :
          Bind(IF TimeForNewTransaction(c)
               THEN EndTransaction(c, f.end) ELSE c, LAMBDA e :
            [e EXCEPT !.ret = TRUE, !.stage = "done",
                      !.topicId = t.ret])))))

\* Log::InsertMessage that returns the result of the commit it attempted
Log_InsertMessage_CommitResult(w, time, name, type, data, f) ==
  Bind(IF ~w.inTransaction THEN BeginTransaction(w, f.begin) ELSE w,
       LAMBDA b :
    IF ~w.inTransaction /\ ~b.ret
    THEN [b EXCEPT !.ret = FALSE, !.stage = "begin"]
    ELSE Bind(TopicId(b, name, type, f.topic), LAMBDA t :
      IF t.ret < 0
      THEN [t EXCEPT !.ret = FALSE, !.stage = "topic", !.topicId = t.ret]
      ELSE Bind(LogPrivate_InsertMessage(t, time, t.ret, data, f.insert),
                LAMBDA m :
        IF ~m.ret
        THEN [m EXCEPT !.ret = FALSE, !.stage = "insert", !.topicId = t.ret]
        ELSE Bind([m EXCEPT !.clock = @ + f.elapsed], LAMBDA c :
          Bind(IF TimeForNewTransaction(c)
               THEN EndTransaction(c, f.end) ELSE [c EXCEPT !.ret = TRUE],
               LAMBDA e :
            [e EXCEPT !.stage = "done", !.topicId = t.ret])))))

\* Log::InsertMessage that ends the transaction when the resolution or the
\* insert fails
Log_InsertMessage_EndOnFailure(w, time, name, type, data, f) ==
  Bind(IF ~w.inTransaction THEN BeginTransaction(w, f.begin) ELSE w,
       LAMBDA b :
    IF ~w.inTransaction /\ ~b.ret
    THEN [b EXCEPT !.ret = FALSE, !.stage = "begin"]
    ELSE Bind(TopicId(b, name, type, f.topic), LAMBDA t :
      IF t.ret < 0
      THEN [EndTransaction(t, f.end) EXCEPT
              !.ret = FALSE, !.stage = "topic", !.topicId = t.ret]
      ELSE Bind(LogPrivate_InsertMessage(t, time, t.ret, data, f.insert),
                LAMBDA m :
        IF ~m.ret
        THEN [EndTransaction(m, f.end) EXCEPT
                !.ret = FALSE, !.stage = "insert", !.topicId = t.ret]
        ELSE Bind([m EXCEPT !.clock = @ + f.elapsed], LAMBDA c :
          Bind(IF TimeForNewTransaction(c)
               THEN EndTransaction(c, f.end) ELSE c, LAMBDA e :
            [e EXCEPT !.ret = TRUE, !.stage = "done",
                      !.topicId = t.ret])))))

\* f: which command the store fails in this call, and the time the call takes
Log_InsertMessage(w, time, name, type, data, f) ==
  Bind(IF ~w.inTransaction THEN BeginTransaction(w, f.begin) ELSE w,
       LAMBDA b :
    IF ~w.inTransaction /\ ~b.ret
    THEN [b EXCEPT !.ret = FALSE, !.stage = "begin"]
    ELSE Bind(TopicId(b, name, type, f.topic), LAMBDA t :
      IF t.ret < 0
      THEN [t EXCEPT !.ret = FALSE, !.stage = "topic", !.topicId = t.ret]
      ELSE Bind(LogPrivate_InsertMessage(t, time, t.ret, data, f.insert),
                LAMBDA m :
        IF ~m.ret
        THEN [m EXCEPT !.ret = FALSE, !.stage = "insert", !.topicId = t.ret]
        ELSE Bind([m EXCEPT !.clock = @ + f.elapsed], LAMBDA c :
          Bind(IF TimeForNewTransaction(c)
               THEN EndTransaction(c, f.end) ELSE c, LAMBDA e :
            [e EXCEPT !.ret = TRUE, !.stage = "done",
                      !.topicId = t.ret])))))

\* a destructor that releases the connection without the final commit
Log_Destroy_NoCommit(w, endOk) == Close(w)

\* Log::~Log, then the members' destructors release the connection
Log_Destroy(w, endOk) ==
  Close(IF w.inTransaction THEN EndTransaction(w, endOk) ELSE w)

\* Log::~Log of an object whose dataPtr was moved away. w.dataPtr is "null":
\* the test reads the flag through it. A flag read as set leads to
\* EndTransaction on no LogPrivate, which reads db through the same pointer
\* and stops the process; a flag read as clear leads to the destructor of the
\* empty unique_ptr, which releases nothing.
Log_Destroy_MovedFrom(w, nd) ==
  IF nd = "clear"
  THEN [w EXCEPT !.stage = "null_dataPtr"]
  ELSE [w EXCEPT !.stage = "null_dataPtr", !.crashed = TRUE]

\* ------------------------------------------------------------ the machine
\* the program state at the start of a call, with the call's locals
World(nd) ==
  [db |-> db, inTransaction |-> inTransaction, topics |-> topics,
   lastTransaction |-> lastTransaction, file |-> file, conn |-> conn,
   clock |-> now, cmds |-> <<>>, ret |-> FALSE, crashed |-> FALSE,
   nullDeref |-> nd, stage |-> "", topicId |-> 0]

NoCall == [op |-> "construct", returned |-> TRUE, ret |-> TRUE,
           wasActive |-> FALSE, wasDb |-> "null", cmds |-> <<>>,
           end |-> 0, stage |-> "", retry |-> FALSE]

NoBase == [messages |-> 0, topicRows |-> 0, tables |-> FALSE]

\* the rows of the view that the file does not hold yet
Uncommitted(f, c, d) ==
  IF d = "open" THEN Len(c.messages) - Len(f.messages) ELSE 0

\* the last n elements of s
Last(s, n) == SubSeq(s, Len(s) - n + 1, Len(s))

\* the state after a call that ended in r
Store(r, life) ==
  /\ pc' = IF r.crashed THEN "crashed" ELSE life
  /\ db' = r.db
  /\ inTransaction' = r.inTransaction
  /\ topics' = r.topics
  /\ lastTransaction' = r.lastTransaction
  /\ now' = r.clock
  /\ file' = r.file
  /\ conn' = r.conn

Init ==
  /\ pc = "alive"
  /\ db = "null"
  /\ inTransaction = FALSE
  /\ topics = [k \in {} |-> 0]
  /\ lastTransaction = 0
  /\ now = 0
  /\ file = NoFile
  /\ conn = NoConn
  /\ calls = 0
  /\ accepted = <<>>
  /\ base = NoBase
  /\ resolved = {}
  /\ halfResolved = {}
  /\ pending = <<>>
  /\ lastCall = NoCall
  /\ instances = 1
  /\ movedFrom = 0

Open ==
  /\ pc = "alive"
  /\ \E path \in Paths, mode \in Modes,
        connOk \in IF db = "null" THEN BOOLEAN ELSE {TRUE},
        sfault \in IF db = "null" THEN SchemaFaults ELSE {"none"} :
       \E r \in {Log_Open(World("crash"), path, mode, connOk, sfault)} :
          /\ Store(r, pc)
          /\ base' = IF db = "null" /\ r.db = "open"
                     THEN [messages |-> Len(file.messages),
                           topicRows |-> Len(file.topicRows),
                           tables |-> file.tables]
                     ELSE base
          /\ lastCall' = [NoCall EXCEPT !.op = "open", !.ret = r.ret,
                                        !.wasActive = inTransaction,
                                        !.wasDb = db, !.cmds = r.cmds,
                                        !.end = r.clock]
          /\ UNCHANGED <<calls, accepted, resolved, halfResolved, pending,
                         instances, movedFrom>>

InsertMessage ==
  /\ pc = "alive"
  /\ calls < MaxCalls
  /\ \E time \in Times, name \in Names, type \in TypeNames,
        data \in Payloads, fault \in CallFaults,
        nd \in IF db = "null" THEN NullDerefs ELSE {"misuse"} :
       \E elapsed \in IF fault \in {"none", "end"}
                      THEN CallElapsed ELSE {0} :
       \E r \in {Log_InsertMessage(World(nd), time, name, type, data,
                    [begin |-> fault # "begin",
                     topic |-> IF fault \in TopicFaults
                               THEN fault ELSE "none",
                     insert |-> IF fault \in InsertFaults
                                THEN fault ELSE "none",
                     end |-> fault # "end", elapsed |-> elapsed])} :
       LET row == Len(r.conn.messages) > Len(conn.messages)
           all == IF row THEN Append(pending, now) ELSE pending
       IN /\ now + elapsed <= MaxTime
          /\ Store(r, pc)
          /\ calls' = calls + 1
          /\ accepted' = IF r.ret /\ ~r.crashed
                         THEN Append(accepted,
                                     [time |-> time, name |-> name,
                                      type |-> type, data |-> data])
                         ELSE accepted
          /\ resolved' = IF r.stage \in {"insert", "done"}
                         THEN resolved \cup {<<name, type, r.topicId>>}
                         ELSE resolved
          /\ halfResolved' =
               IF /\ r.stage = "topic"
                  /\ \E i \in 1..Len(r.cmds) :
                        r.cmds[i].cmd = "TYPE" /\ r.cmds[i].ok
               THEN halfResolved \cup {<<name, type>>}
               ELSE halfResolved
          /\ pending' = Last(all, Uncommitted(r.file, r.conn, r.db))
          /\ lastCall' = [op |-> "insert", returned |-> ~r.crashed,
                          ret |-> r.ret, wasActive |-> inTransaction,
                          wasDb |-> db, cmds |-> r.cmds,
                          end |-> r.clock, stage |-> r.stage,
                          retry |-> /\ lastCall.op = "insert"
                                    /\ \E i \in 1..Len(lastCall.cmds) :
                                          /\ lastCall.cmds[i].cmd = "END"
                                          /\ ~lastCall.cmds[i].ok]
          /\ UNCHANGED <<base, instances, movedFrom>>

Destroy ==
  /\ pc = "alive"
  /\ \E endOk \in BOOLEAN :
       \E r \in {Log_Destroy(World("crash"), endOk)} :
          /\ Store(r, "destroyed")
          /\ lastCall' = [NoCall EXCEPT !.op = "destroy",
                                        !.wasActive = inTransaction,
                                        !.wasDb = db, !.cmds = r.cmds,
                                        !.end = r.clock]
          /\ pending' = <<>>
          /\ UNCHANGED <<calls, accepted, base, resolved, halfResolved,
                         instances, movedFrom>>

\* Log::Log(): the next Log object of the process, or of the next process
Construct ==
  /\ pc \in {"destroyed", "crashed"}
  /\ instances < MaxInstances
  /\ pc' = "alive"
  /\ db' = "null"
  /\ inTransaction' = FALSE
  /\ topics' = [k \in {} |-> 0]
  /\ lastTransaction' = 0
  /\ conn' = NoConn
  /\ accepted' = <<>>
  /\ base' = NoBase
  /\ resolved' = {}
  /\ halfResolved' = {}
  /\ pending' = <<>>
  /\ lastCall' = NoCall
  /\ instances' = instances + 1
  /\ movedFrom' = IF pc = "crashed" THEN 0 ELSE movedFrom
  /\ UNCHANGED <<now, file, calls>>

\* time passes between two calls
Tick ==
  /\ pc = "alive"
  /\ \E d \in TickSteps :
       /\ now + d <= MaxTime
       /\ now' = now + d
  /\ UNCHANGED <<pc, db, inTransaction, topics, lastTransaction, file, conn,
                 calls, accepted, base, resolved, halfResolved, pending,
                 lastCall, instances, movedFrom>>

\* Log::Log(Log &&_other): the new object takes dataPtr, with the
\* connection, the flag, the cache and the watermark; _other keeps a null
\* dataPtr. The new object is the one the process goes on with.
MoveConstruct ==
  /\ pc = "alive"
  /\ instances < MaxInstances
  /\ instances' = instances + 1
  /\ movedFrom' = movedFrom + 1
  /\ lastCall' = [NoCall EXCEPT !.op = "move", !.wasActive = inTransaction,
                                !.wasDb = db, !.end = now]
  /\ UNCHANGED <<pc, db, inTransaction, topics, lastTransaction, now, file,
                 conn, calls, accepted, base, resolved, halfResolved,
                 pending>>

\* the destruction of a moved-from object; when it stops the process, the
\* connection of the live object goes with it, uncommitted rows included
DestroyMovedFrom ==
  /\ pc = "alive"
  /\ movedFrom > 0
  /\ \E nd \in NullDataPtrs :
       \E r \in {Log_Destroy_MovedFrom(World("crash"), nd)} :
          /\ pc' = IF r.crashed THEN "crashed" ELSE pc
          /\ conn' = IF r.crashed THEN NoConn ELSE conn
          /\ pending' = IF r.crashed THEN <<>> ELSE pending
          /\ movedFrom' = IF r.crashed THEN 0 ELSE movedFrom - 1
          /\ lastCall' = [NoCall EXCEPT !.op = "destroy_moved",
                                        !.returned = ~r.crashed,
                                        !.wasActive = inTransaction,
                                        !.wasDb = db, !.cmds = r.cmds,
                                        !.end = r.clock, !.stage = r.stage]
          /\ UNCHANGED <<db, inTransaction, topics, lastTransaction, now,
                         file, calls, accepted, base, resolved,
                         halfResolved, instances>>

Next == Open \/ InsertMessage \/ Destroy \/ Construct \/ Tick

Spec == Init /\ [][Next]_vars

\* the file that IntMax earlier Log objects left: each resolved (t, A) on a
\* cold cache, which added one topics row, and none got a message in
OldFile ==
  [exists |-> TRUE, tables |-> TRUE, types |-> <<"A">>,
   topicRows |-> [i \in 1..IntMax |-> [name |-> "t", message_type_id |-> 1]],
   messages |-> <<>>]

\* a Log object constructed over the file the earlier objects left
InitBig ==
  /\ pc = "alive"
  /\ db = "null"
  /\ inTransaction = FALSE
  /\ topics = [k \in {} |-> 0]
  /\ lastTransaction = 0
  /\ now = 0
  /\ file = OldFile
  /\ conn = NoConn
  /\ calls = 0
  /\ accepted = <<>>
  /\ base = NoBase
  /\ resolved = {}
  /\ halfResolved = {}
  /\ pending = <<>>
  /\ lastCall = NoCall
  /\ instances = 1
  /\ movedFrom = 0

SpecBig == InitBig /\ [][Next]_vars

\* the facade with move construction
NextMove ==
  \/ Open \/ InsertMessage \/ Destroy \/ Construct \/ Tick
  \/ MoveConstruct \/ DestroyMovedFrom

SpecMove == Init /\ [][NextMove]_vars

\* one Log object, from its construction on a new file to its destruction
NextOne == Open \/ InsertMessage \/ Destroy \/ Tick

SpecOne == Init /\ [][NextOne]_vars

\* ------------------------------------------------------------ properties
\* the rows of topics in view c whose name is name and whose type row is type
TopicRowsFor(c, name, type) ==
  {i \in 1..Len(c.topicRows) :
     /\ c.topicRows[i].name = name
     /\ c.topicRows[i].message_type_id \in 1..Len(c.types)
     /\ c.types[c.topicRows[i].message_type_id] = type}

\* the rows of message_types in view c whose name is type
TypeRowsFor(c, type) == {i \in 1..Len(c.types) : c.types[i] = type}

\* the row of the inputs of call a, with the topic id the object holds
RowOf(a) ==
  [time_recv_sec |-> a.time[1], time_recv_nano |-> a.time[2],
   message |-> a.data, topic_id |-> topics[<<a.name, a.type>>]]

\* the row a successful call a wrote: the topic id went through an int
WrittenRowOf(a) == [RowOf(a) EXCEPT !.topic_id = BindInt(@)]

\* the rows past the first n of msgs are the rows of the successful calls
RowsOfAccepted(msgs, n) ==
  /\ Len(msgs) = n + Len(accepted)
  /\ \A i \in 1..Len(accepted) :
       /\ <<accepted[i].name, accepted[i].type>> \in DOMAIN topics
       /\ msgs[n + i] = WrittenRowOf(accepted[i])

\* the commands cmd among the commands of the latest call
CmdsOf(cmd) ==
  {i \in 1..Len(lastCall.cmds) : lastCall.cmds[i].cmd = cmd}

\* the latest call is an InsertMessage that returned success
InsertSucceeded ==
  lastCall.op = "insert" /\ lastCall.returned /\ lastCall.ret

\* the latest call issued a commit that the store failed
CommitFailed ==
  \E i \in CmdsOf("END") : ~lastCall.cmds[i].ok

\* C1: while a Log object is alive, the messages table it sees holds, past
\* the rows that were there when it connected, exactly one row for each
\* InsertMessage call that returned success, in call order, and nothing for
\* a call that returned failure; without a connection no call succeeds.
C1_RowsAreSuccessfulCalls ==
  pc = "alive" =>
    IF db = "open" THEN RowsOfAccepted(conn.messages, base.messages)
    ELSE accepted = <<>>

\* two successful calls on two topics, so that the order of the rows shows
C1_Witness ==
  /\ pc = "alive" /\ db = "open"
  /\ Len(accepted) = 2
  /\ accepted[1].name # accepted[2].name
  /\ conn.messages[base.messages + 1].topic_id
       # conn.messages[base.messages + 2].topic_id

\* C2 as claimed: in every state every uncommitted message was inserted at
\* most transactionPeriod ago.
C2_UncommittedWithinPeriod ==
  (pc = "alive" /\ db = "open") =>
    \A i \in 1..Len(pending) : now - pending[i] <= transactionPeriod

\* C2 as amended: when an InsertMessage call returned success and no commit
\* of it failed, every message still uncommitted was inserted at most
\* transactionPeriod before that call ended. Nothing bounds the age while no
\* call arrives, while calls fail or while the commit fails.
C2_UncommittedWithinPeriodAtReturn ==
  (InsertSucceeded /\ ~CommitFailed) =>
    \A i \in 1..Len(pending) :
      lastCall.end - pending[i] <= transactionPeriod

\* a second insert exactly one period after the first: both are uncommitted
C2_Witness ==
  /\ InsertSucceeded /\ ~CommitFailed
  /\ Len(pending) = 2
  /\ lastCall.end - pending[1] = transactionPeriod

\* C3 as claimed: a successful InsertMessage that ends less than a period
\* after the watermark issues a begin exactly when it started Idle, issues
\* no commit and leaves the transaction Active; one that ends more than a
\* period after the watermark issues one commit and leaves it Idle.
C3_BatchingBound ==
  InsertSucceeded =>
    /\ lastCall.end - lastTransaction < transactionPeriod =>
         /\ Cardinality(CmdsOf("BEGIN")) = IF lastCall.wasActive THEN 0 ELSE 1
         /\ CmdsOf("END") = {}
         /\ inTransaction
    /\ lastCall.end - lastTransaction > transactionPeriod =>
         /\ Cardinality(CmdsOf("END")) = 1
         /\ ~inTransaction

\* C3 as amended: the same, and the call that ends more than a period after
\* the watermark leaves the transaction Idle when its commit succeeds and
\* Active when its commit fails.
C3_BatchingBoundCommitResult ==
  InsertSucceeded =>
    /\ lastCall.end - lastTransaction < transactionPeriod =>
         /\ Cardinality(CmdsOf("BEGIN")) = IF lastCall.wasActive THEN 0 ELSE 1
         /\ CmdsOf("END") = {}
         /\ inTransaction
    /\ lastCall.end - lastTransaction > transactionPeriod =>
         /\ Cardinality(CmdsOf("END")) = 1
         /\ inTransaction = CommitFailed

\* an insert into a transaction begun by an earlier call, after the period
C3_Witness ==
  /\ InsertSucceeded
  /\ lastCall.wasActive
  /\ lastCall.end - lastTransaction > transactionPeriod
  /\ Cardinality(CmdsOf("END")) = 1
  /\ ~CommitFailed
  /\ ~inTransaction

C5_ColdCacheSameId ==
  (pc = "alive" /\ db = "open") =>
    \A r \in resolved :
      \A i \in TopicRowsFor(conn, r[1], r[2]) :
        i <= base.topicRows =>
          /\ r[3] = i
          /\ TopicRowsFor(conn, r[1], r[2]) = {i}

\* C6: two successful resolutions on one Log object return the same id only
\* if both the name and the type are the same.
C6_DistinctPairsDistinctIds ==
  \A r \in resolved : \A q \in resolved :
    q[3] = r[3] => (q[1] = r[1] /\ q[2] = r[2])

\* one name resolved with two types
C6_Witness ==
  \E r \in resolved : \E q \in resolved :
    r[1] = q[1] /\ r[2] # q[2] /\ r[3] # q[3]

\* C7: an Open that could not connect returns failure.
C7_OpenFailsWithoutConnection ==
  (lastCall.op = "open" /\ lastCall.wasDb = "null" /\ db = "invalid") =>
    ~lastCall.ret

\* C8: an Open on an object that already holds a store returns failure and
\* changes neither the connection, the store, the cache nor the
\* transaction state.
C8_SecondOpenChangesNothing ==
  [][(/\ lastCall'.op = "open"
      /\ lastCall'.wasDb # "null"
      /\ lastCall' # lastCall)
     => /\ ~lastCall'.ret
        /\ UNCHANGED <<db, conn, file, topics, inTransaction,
                       lastTransaction>>]_vars

\* a second Open on an object with an open transaction and a pending row
C8_Witness ==
  /\ lastCall.op = "open"
  /\ lastCall.wasDb = "open"
  /\ ~lastCall.ret
  /\ inTransaction
  /\ Len(pending) > 0

\* C9: destroying an object whose transaction is Active issues one commit,
\* on the connection that is still held; if the commit succeeds the file
\* holds the row of every successful call; the destruction completes
\* either way. Destroying an Idle object issues no command.
C9_DestroyCommits ==
  lastCall.op = "destroy" =>
    /\ pc = "destroyed"
    /\ lastCall.wasActive =>
         /\ Len(lastCall.cmds) = 1
         /\ lastCall.cmds[1].cmd = "END"
         /\ lastCall.cmds[1].handle = "valid"
         /\ lastCall.cmds[1].ok => RowsOfAccepted(file.messages, base.messages)
    /\ ~lastCall.wasActive => lastCall.cmds = <<>>

\* an object destroyed with a pending row, whose final commit succeeded
C9_Witness ==
  /\ lastCall.op = "destroy"
  /\ lastCall.wasActive
  /\ lastCall.cmds[1].ok
  /\ Len(accepted) > 0
  /\ Len(file.messages) = base.messages + Len(accepted)

\* C10: every facade call returns to its caller and none hands the store a
\* handle that is missing or invalid.
C10_CallsReturnAndUseValidHandle ==
  /\ pc # "crashed"
  /\ lastCall.returned
  /\ \A i \in 1..Len(lastCall.cmds) : lastCall.cmds[i].handle = "valid"

\* an Open that connected this object to a file that already had its tables
OpenedBootstrapped ==
  /\ lastCall.op = "open"
  /\ lastCall.wasDb = "null"
  /\ db = "open"
  /\ base.tables

\* the rows of the file and of the view are the ones found at the connection
RowsAsFound ==
  /\ Len(file.messages) = base.messages
  /\ Len(file.topicRows) = base.topicRows
  /\ conn.messages = file.messages
  /\ conn.topicRows = file.topicRows
  /\ conn.types = file.types

\* C11 as stated: an Open on a file that was already bootstrapped issues no
\* schema statement and succeeds, with the existing rows unchanged
C11_SchemaOnlyOnNewFile ==
  OpenedBootstrapped =>
    /\ CmdsOf("SCHEMA") = {}
    /\ lastCall.ret
    /\ RowsAsFound

\* C11 amended: an Open on a file that was already bootstrapped applies the
\* schema like any other Open: it succeeds exactly when it issued the schema
\* statements and the store accepted them, and the existing rows are unchanged
C11_SchemaOnEveryOpen ==
  OpenedBootstrapped =>
    /\ lastCall.ret <=>
          /\ Len(lastCall.cmds) = 1
          /\ lastCall.cmds[1].cmd = "SCHEMA"
          /\ lastCall.cmds[1].ok
    /\ \A i \in 1..Len(lastCall.cmds) : lastCall.cmds[i].cmd = "SCHEMA"
    /\ RowsAsFound

C11_Witness ==
  /\ OpenedBootstrapped
  /\ lastCall.ret
  /\ CmdsOf("SCHEMA") # {}
  /\ base.messages > 0

\* C12: every row written by a successful InsertMessage holds the seconds
\* and nanoseconds of the input time, the input payload, and as its topic id
\* the id that the resolution returned, whatever 64-bit id the store assigned
C12_RowHoldsInputsAndTopicId ==
  (pc = "alive" /\ db = "open") =>
    \A i \in 1..Len(accepted) :
      /\ base.messages + i <= Len(conn.messages)
      /\ conn.messages[base.messages + i] = RowOf(accepted[i])

\* C13: while the object is alive, inTransaction is true exactly when the
\* connection has an open transaction, which this object began; a begin the
\* store failed leaves the flag false and a commit the store failed leaves
\* it true
C13_FlagIsOpenTransaction ==
  pc = "alive" =>
    /\ inTransaction <=> conn.txn
    /\ (\E i \in CmdsOf("BEGIN") : ~lastCall.cmds[i].ok) => ~inTransaction
    /\ (lastCall.op = "insert" /\ CommitFailed) => inTransaction

\* a commit failed and the flag is still set, and so is the transaction
C13_Witness ==
  /\ pc = "alive"
  /\ lastCall.op = "insert"
  /\ CommitFailed
  /\ inTransaction
  /\ conn.txn

\* the begin and commit commands among the commands of the latest call
TxnCmds ==
  {i \in 1..Len(lastCall.cmds) : lastCall.cmds[i].cmd \in {"BEGIN", "END"}}

\* C14: in every InsertMessage call and in the destruction, a begin is issued
\* only while the transaction is Idle and a commit only while it is Active,
\* so the begins and commits that succeed alternate, a begin first
C14_BeginAndCommitAlternate ==
  \A i \in TxnCmds :
    /\ lastCall.cmds[i].cmd = "BEGIN" =>
          ~lastCall.cmds[i].active /\ ~lastCall.cmds[i].txn
    /\ lastCall.cmds[i].cmd = "END" =>
          lastCall.cmds[i].active /\ lastCall.cmds[i].txn
    /\ \A j \in TxnCmds :
          (j < i /\ lastCall.cmds[j].ok /\ lastCall.cmds[i].ok) =>
             /\ lastCall.cmds[j].cmd # lastCall.cmds[i].cmd
             /\ \A k \in TxnCmds : k < i => k = j

\* a call began a transaction after an earlier call of the object had
\* committed one
C14_Witness ==
  /\ lastCall.op = "insert"
  /\ ~lastCall.wasActive
  /\ Len(file.messages) > base.messages
  /\ \E i \in CmdsOf("BEGIN") : lastCall.cmds[i].ok
  /\ CmdsOf("END") = {}

\* the step is an InsertMessage call that returned failure because the topic
\* resolution or the message insert failed
StepFailedAfterBegin ==
  /\ calls' = calls + 1
  /\ lastCall'.returned
  /\ lastCall'.stage \in {"topic", "insert"}

\* the step is a call in which a commit succeeded
StepCommitted ==
  /\ calls' = calls + 1 \/ (pc = "alive" /\ pc' = "destroyed")
  /\ \E i \in 1..Len(lastCall'.cmds) :
        lastCall'.cmds[i].cmd = "END" /\ lastCall'.cmds[i].ok

\* C15: an InsertMessage that fails at the topic resolution or at the message
\* insert issues neither a commit nor a rollback: the transaction stays
\* Active, the watermark is the one of the begin, the messages inserted
\* before are still pending, and a later commit that succeeds makes them
\* durable
C15_FailureKeepsTransaction ==
  [][/\ StepFailedAfterBegin =>
          /\ \A i \in 1..Len(lastCall'.cmds) :
                lastCall'.cmds[i].cmd \notin {"END", "ROLLBACK"}
          /\ inTransaction' /\ conn'.txn
          /\ lastTransaction' = IF inTransaction THEN lastTransaction ELSE now
          /\ conn'.messages = conn.messages
          /\ file'.messages = file.messages
          /\ pending' = pending
     /\ StepCommitted =>
          /\ Len(file'.messages) >= Len(conn.messages)
          /\ SubSeq(file'.messages, 1, Len(conn.messages)) = conn.messages
    ]_vars

\* the insert failed in a transaction that holds an uncommitted message
C15_Witness ==
  /\ lastCall.op = "insert"
  /\ lastCall.stage = "insert"
  /\ lastCall.wasActive
  /\ inTransaction
  /\ Len(pending) = 1
  /\ Len(conn.messages) = Len(file.messages) + 1

\* C16: a topic resolution that returns -1, whichever of its steps failed,
\* leaves the topic cache exactly as it was before the call
C16_FailedResolutionKeepsCache ==
  [][(calls' = calls + 1 /\ lastCall'.returned /\ lastCall'.stage = "topic")
       => topics' = topics]_vars

\* a resolution failed at its last step, after the type row went in, on an
\* object whose cache holds another pair
C16_Witness ==
  /\ lastCall.op = "insert"
  /\ lastCall.stage = "topic"
  /\ \E i \in CmdsOf("TOPIC") : ~lastCall.cmds[i].ok
  /\ halfResolved # {}
  /\ DOMAIN topics # {}
  /\ halfResolved \cap DOMAIN topics = {}

\* C17: while the object is alive, every entry (name, type) -> id of the
\* topic cache is the id of a topics row of the store whose name is name and
\* whose type row is type; without a connection the cache is empty
C17_CacheEntriesAreTopicRows ==
  pc = "alive" =>
    IF db = "open"
    THEN \A k \in DOMAIN topics : topics[k] \in TopicRowsFor(conn, k[1], k[2])
    ELSE DOMAIN topics = {}

\* two entries on one type: the id of the second is not the id of its type
C17_Witness ==
  /\ pc = "alive" /\ db = "open"
  /\ \E k \in DOMAIN topics :
        /\ topics[k] \in TopicRowsFor(conn, k[1], k[2])
        /\ topics[k] # conn.topicRows[topics[k]].message_type_id
  /\ Cardinality(DOMAIN topics) = 2

\* every type, topic and message write of the latest call was issued inside
\* the transaction of this object
WritesInTransaction ==
  \A i \in 1..Len(lastCall.cmds) :
    lastCall.cmds[i].cmd \in {"TYPE", "TOPIC", "MESSAGE"} =>
      lastCall.cmds[i].active /\ lastCall.cmds[i].txn

\* every messages row of f names a topics row of f, and every topics row of f
\* names a message_types row of f
ReferentiallyClosed(f) ==
  /\ \A i \in 1..Len(f.messages) :
        f.messages[i].topic_id \in 1..Len(f.topicRows)
  /\ \A i \in 1..Len(f.topicRows) :
        f.topicRows[i].message_type_id \in 1..Len(f.types)

\* C18: every write is issued while the transaction is Active, and the
\* committed contents of the file are referentially closed at every moment
C18_CommittedContentsClosed ==
  WritesInTransaction /\ ReferentiallyClosed(file)

\* the commit is due: the transaction is Active and began more than
\* transactionPeriod ago
CommitOutstanding ==
  inTransaction /\ now - transactionPeriod > lastTransaction

\* C19: an InsertMessage whose commit fails returns success all the same and
\* leaves the transaction Active, the watermark as the begin set it and the
\* commit due; a call made while the commit is due issues no begin, and
\* attempts the commit again exactly when it resolves and inserts
C19_FailedCommitIsRetried ==
  [][(calls' = calls + 1 /\ lastCall'.returned) =>
       /\ (\E i \in 1..Len(lastCall'.cmds) :
              lastCall'.cmds[i].cmd = "END" /\ ~lastCall'.cmds[i].ok) =>
            /\ lastCall'.ret
            /\ lastCall'.stage = "done"
            /\ inTransaction' /\ conn'.txn
            /\ lastTransaction' = IF inTransaction THEN lastTransaction
                                                  ELSE now
            /\ now' - transactionPeriod > lastTransaction'
            /\ Len(conn'.messages) = Len(conn.messages) + 1
            /\ file'.messages = file.messages
       /\ CommitOutstanding =>
            /\ \A i \in 1..Len(lastCall'.cmds) :
                  lastCall'.cmds[i].cmd # "BEGIN"
            /\ lastCall'.stage = "done" <=>
                  \E i \in 1..Len(lastCall'.cmds) :
                     lastCall'.cmds[i].cmd = "END"
    ]_vars

\* the call after one whose commit failed: no begin, and the commit again
C19_Witness ==
  /\ lastCall.op = "insert"
  /\ lastCall.retry
  /\ lastCall.ret
  /\ CmdsOf("BEGIN") = {}
  /\ \E i \in CmdsOf("END") : lastCall.cmds[i].ok
  /\ Len(file.messages) = base.messages + 2

\* C20: the connection and the transaction state belong to one Log object at
\* a time: the destruction of the owner attempts the outstanding commit once
\* and then releases the connection, and the destruction of a moved-from
\* object returns, issues no command, reads no transaction state and
\* releases nothing
C20_MovedFromDestroyIsInert ==
  /\ lastCall.op = "destroy" =>
        /\ db = "null" /\ conn = NoConn
        /\ Cardinality(CmdsOf("END")) = IF lastCall.wasActive THEN 1 ELSE 0
  /\ lastCall.op = "move" => (db # "null" <=> lastCall.wasDb # "null")
  /\ lastCall.op = "destroy_moved" =>
        /\ lastCall.returned
        /\ lastCall.cmds = <<>>
        /\ lastCall.stage # "null_dataPtr"
        /\ db = lastCall.wasDb
        /\ inTransaction = lastCall.wasActive

====
